---- MODULE Spec2Model ----
(***************************************************************************)
(* A model of LogsSubscription (packages/web3-eth-contract/src/            *)
(* log_subscription.ts): the constructor, _buildSubscriptionParams and     *)
(* _processSubscriptionResult, with the emitter and the call stack of the  *)
(* caller kept as logs so that every call's outcome can be inspected.      *)
(***************************************************************************)
EXTENDS Integers, Sequences, FiniteSets, TLC

VARIABLES
    sessions,      \* session id -> the LogsSubscription object (its fields), if constructed
    ctorLog,       \* session id -> the constructor call made for it: arguments and outcome
    firstBuilt,    \* session id -> the first _buildSubscriptionParams call and its result
    lastBuilt,     \* session id -> the latest _buildSubscriptionParams call and its result
    delivered,     \* the notifications handed to _processSubscriptionResult, in call order
    emitted,       \* the events emitted through this.emit, in emission order
    raised,        \* the exceptions that left _processSubscriptionResult
    decoderCalls,  \* the calls made to decodeEventABI, with the schema passed
    closed         \* the sessions whose unsubscribe request has been acknowledged

vars ==
    <<sessions, ctorLog, firstBuilt, lastBuilt, delivered, emitted, raised, decoderCalls,
      closed>>

-----------------------------------------------------------------------------
(* Bounds of the model. *)

\* The number of notifications handed to the sessions in one behaviour.
MaxNotifications == 2

\* The session objects of one behaviour.
SessionIds == {"s1", "s2"}

-----------------------------------------------------------------------------
(* JavaScript optional values: an absent property or `undefined` is the    *)
(* empty tuple, a value v that is present is <<v>>.                         *)

Undefined == <<>>
Some(v) == <<v>>
IsDefined(o) == Len(o) = 1
ValueOf(o) == o[1]

-----------------------------------------------------------------------------
(* web3-eth-abi: jsonInterfaceMethodToString and encodeEventSignature.     *)

\* The canonical form of an event: its name and the ordered parameter types.
JsonInterfaceMethodToString(abi) ==
    <<abi.name>> \o [i \in 1..Len(abi.inputs) |-> abi.inputs[i].type]

TokenCodes ==
    [Transfer |-> 3, Flag |-> 5, address |-> 7, uint256 |-> 11, bool |-> 13, stale |-> 17]

RECURSIVE Digest(_, _)
Digest(tokens, h) ==
    IF tokens = <<>> THEN h
    ELSE Digest(Tail(tokens), (h * 31 + TokenCodes[Head(tokens)]) % 65536)

\* The fixed-width hash of a canonical signature string.
EncodeEventSignature(canonical) == Digest(canonical, 1)

-----------------------------------------------------------------------------
(* ./encoding: decodeEventABI.                                              *)

IndexedInputs(inputs) == SelectSeq(inputs, LAMBDA p : p.indexed)
NonIndexedInputs(inputs) == SelectSeq(inputs, LAMBDA p : ~p.indexed)

\* The number of parameters among the first k that are indexed like the k-th.
PositionAmongKind(inputs, k) ==
    Cardinality({j \in 1..k : inputs[j].indexed = inputs[k].indexed})

\* One 32-byte word decoded as a value of the given type.
DecodeParameter(type, word) ==
    CASE type = "address" -> word % 256
      [] type = "bool"    -> IF word = 0 THEN 0 ELSE 1
      [] OTHER            -> word

\* The topic count and the data length are the ones the schema lays out:
\* slot 0 and one topic per indexed parameter, one word per other parameter.
LayoutMatches(inputs, data) ==
    /\ Len(data.topics) = Len(IndexedInputs(inputs)) + 1
    /\ Len(data.data) = Len(NonIndexedInputs(inputs))

\* Parameter name -> decoded value, indexed parameters from the topics after
\* slot 0 and the others from the data words, in schema order.
DecodeLog(inputs, data) ==
    [n \in {inputs[k].name : k \in 1..Len(inputs)} |->
        LET k == CHOOSE i \in 1..Len(inputs) : inputs[i].name = n
            pos == PositionAmongKind(inputs, k)
        IN  IF inputs[k].indexed
            THEN DecodeParameter(inputs[k].type, data.topics[pos + 1])
            ELSE DecodeParameter(inputs[k].type, data.data[pos])]

DecodeEventABI(event, data) ==
    IF ~LayoutMatches(event.inputs, data)
    THEN [ok |-> FALSE, error |-> "DecodeError"]
    ELSE [ok |-> TRUE,
          value |-> [returnValues |-> DecodeLog(event.inputs, data),
                     event        |-> event.name,
                     signature    |-> event.signature,
                     raw          |-> [data |-> data.data, topics |-> data.topics],
                     address      |-> data.address,
                     blockNumber  |-> data.blockNumber,
                     logIndex     |-> data.logIndex,
                     removed      |-> data.removed]]

-----------------------------------------------------------------------------
(* The inputs of the model.                                                 *)

TransferInputs ==
    << [name |-> "from",  type |-> "address", indexed |-> TRUE],
       [name |-> "to",    type |-> "address", indexed |-> TRUE],
       [name |-> "value", type |-> "uint256", indexed |-> FALSE] >>

FlagInputs ==
    << [name |-> "on",    type |-> "bool",    indexed |-> TRUE],
       [name |-> "count", type |-> "uint256", indexed |-> FALSE] >>

StaleSignature == EncodeEventSignature(<<"stale">>)

\* Event fragments: without a signature field, and with a stale one.
TransferAbi == [name |-> "Transfer", inputs |-> TransferInputs, signature |-> Undefined]
TransferAbiStale == [TransferAbi EXCEPT !.signature = Some(StaleSignature)]
FlagAbi == [name |-> "Flag", inputs |-> FlagInputs, signature |-> Undefined]

TransferSignature == EncodeEventSignature(JsonInterfaceMethodToString(TransferAbi))

\* A topic slot of a filter: match-any (null), one value, or an OR-set.
AnySlot == [kind |-> "any", values |-> {}]
OneSlot(v) == [kind |-> "one", values |-> {v}]
OrSlot(vs) == [kind |-> "or", values |-> vs]

\* The constructor arguments tried: address and topics present or absent,
\* filters inside and outside the slot-count and slot-0 rules, schema
\* present (with and without a stored signature) or absent.
CtorArgs ==
    { [address |-> Undefined, topics |-> Undefined, abi |-> Some(TransferAbi)],
      [address |-> Some("0xA"),
       topics  |-> Some(<<OneSlot(TransferSignature), AnySlot, OrSlot({1, 2})>>),
       abi     |-> Some(TransferAbiStale)],
      [address |-> Some("0xA"), topics |-> Some(<<>>), abi |-> Undefined],
      [address |-> Undefined,
       topics  |-> Some(<<OneSlot(StaleSignature), OneSlot(1), OneSlot(2), OneSlot(3)>>),
       abi     |-> Some(TransferAbi)],
      [address |-> Some("0xB"), topics |-> Undefined, abi |-> Some(FlagAbi)] }

\* The notifications tried: three topics (the layout of Transfer) or two (the
\* layout of Flag), removed or not.
Notifications ==
    { [address     |-> "0xA",
       topics      |-> t,
       data        |-> <<100>>,
       blockNumber |-> 1,
       logIndex    |-> 0,
       removed     |-> r] :
      t \in {<<TransferSignature, 1, 258>>, <<TransferSignature, 1>>},
      r \in BOOLEAN }

-----------------------------------------------------------------------------
(* LogsSubscription.                                                        *)

\* The filter rules of the data model: at most one slot per indexed
\* parameter plus slot 0, and slot 0, when given, is the signature hash.
FilterWithinSchema(args) ==
    \/ ~IsDefined(args.abi)
    \/ ~IsDefined(args.topics)
    \/ LET abi == ValueOf(args.abi)
           topics == ValueOf(args.topics)
       IN  /\ Len(topics) <= Len(IndexedInputs(abi.inputs)) + 1
           /\ (Len(topics) >= 1 /\ topics[1].kind # "any") =>
                 topics[1] = OneSlot(EncodeEventSignature(JsonInterfaceMethodToString(abi)))

\* Mutant: a constructor that rejects an absent schema.
LogsSubscription_RequireAbi(args) ==
    IF ~IsDefined(args.abi)
    THEN [threw |-> Some("ConfigurationError"), this |-> Undefined]
    ELSE [threw |-> Undefined,
          this  |-> [address |-> args.address, topics |-> args.topics, abi |-> args.abi]]

\* Mutant: a constructor that rejects a filter outside the filter rules.
LogsSubscription_ValidateFilter(args) ==
    IF ~FilterWithinSchema(args)
    THEN [threw |-> Some("ConfigurationError"), this |-> Undefined]
    ELSE [threw |-> Undefined,
          this  |-> [address |-> args.address, topics |-> args.topics, abi |-> args.abi]]

\* constructor(args, options): the fields are the arguments, unchecked.
LogsSubscription(args) ==
    [threw |-> Undefined,
     this  |-> [address |-> args.address, topics |-> args.topics, abi |-> args.abi]]

\* Mutant: the signature topic is pushed onto this.topics in place on each call.
BuildSubscriptionParams_Unshift(self) ==
    LET slot0 == IF IsDefined(self.abi)
                 THEN OneSlot(EncodeEventSignature(JsonInterfaceMethodToString(ValueOf(self.abi))))
                 ELSE AnySlot
        topics == Some(<<slot0>> \o
                       (IF IsDefined(self.topics) THEN ValueOf(self.topics) ELSE <<>>))
    IN  [this |-> [self EXCEPT !.topics = topics],
         ret  |-> <<"logs", [address |-> self.address, topics |-> topics]>>]

\* Mutant: a key is written only when its field is defined.
BuildSubscriptionParams_OmitUndefined(self) ==
    [this |-> self,
     ret  |-> <<"logs",
                [k \in {j \in {"address", "topics"} :
                           IF j = "address" THEN IsDefined(self.address)
                                            ELSE IsDefined(self.topics)} |->
                    IF k = "address" THEN self.address ELSE self.topics]>>]

\* Mutant: when no topics were given, slot 0 is filled with the signature hash.
BuildSubscriptionParams_FillSlot0(self) ==
    LET topics ==
            IF ~IsDefined(self.topics) /\ IsDefined(self.abi)
            THEN Some(<<OneSlot(EncodeEventSignature(
                            JsonInterfaceMethodToString(ValueOf(self.abi))))>>)
            ELSE self.topics
    IN  [this |-> self,
         ret  |-> <<"logs", [address |-> self.address, topics |-> topics]>>]

\* _buildSubscriptionParams(): the tuple ['logs', {address, topics}]; both
\* keys are written, with the value undefined when the field is.
BuildSubscriptionParams(self) ==
    [this |-> self,
     ret  |-> <<"logs", [address |-> self.address, topics |-> self.topics]>>]

\* Mutant: the spread comes last, so a stored signature field wins.
SchemaWithSignature_StoredWins(abi) ==
    IF IsDefined(abi.signature)
    THEN abi
    ELSE [abi EXCEPT !.signature =
              Some(EncodeEventSignature(JsonInterfaceMethodToString(abi)))]

\* { ...this.abi, signature: encodeEventSignature(jsonInterfaceMethodToString(this.abi)) }
SchemaWithSignature(abi) ==
    [abi EXCEPT !.signature = Some(EncodeEventSignature(JsonInterfaceMethodToString(abi)))]

\* Mutant: a removed log is emitted as `changed` and, the else missing, as `data` too.
EmitDecoded_NoElse(decoded, data) ==
    (IF data.removed THEN << [name |-> "changed", payload |-> decoded] >> ELSE <<>>)
        \o << [name |-> "data", payload |-> decoded] >>

\* Mutant: only the decoded values are emitted, the rest of the record dropped.
EmitDecoded_ReturnValuesOnly(decoded, data) ==
    << [name |-> "data", payload |-> [returnValues |-> decoded.returnValues]] >>

\* this.emit('data', decoded)
EmitDecoded(decoded, data) == << [name |-> "data", payload |-> decoded] >>

\* Mutant: the augmented schema is stored back into this.abi before decoding.
ProcessSubscriptionResult_WriteBack(self, data) ==
    IF ~IsDefined(self.abi)
    THEN [this |-> self, emits |-> <<>>, threw |-> Some("TypeError"), calls |-> <<>>]
    ELSE LET event == SchemaWithSignature(ValueOf(self.abi))
             decoded == DecodeEventABI(event, data)
             call == [event |-> event, data |-> data]
             this == [self EXCEPT !.abi = Some(event)]
         IN  IF decoded.ok
             THEN [this  |-> this,
                   emits |-> EmitDecoded(decoded.value, data),
                   threw |-> Undefined,
                   calls |-> <<call>>]
             ELSE [this  |-> this,
                   emits |-> <<>>,
                   threw |-> Some(decoded.error),
                   calls |-> <<call>>]

\* Mutant: a decoder failure is caught and the raw log is emitted as `data`.
ProcessSubscriptionResult_EmitPartial(self, data) ==
    IF ~IsDefined(self.abi)
    THEN [this |-> self, emits |-> <<>>, threw |-> Some("TypeError"), calls |-> <<>>]
    ELSE LET event == SchemaWithSignature(ValueOf(self.abi))
             decoded == DecodeEventABI(event, data)
             call == [event |-> event, data |-> data]
         IN  IF decoded.ok
             THEN [this  |-> self,
                   emits |-> EmitDecoded(decoded.value, data),
                   threw |-> Undefined,
                   calls |-> <<call>>]
             ELSE [this  |-> self,
                   emits |-> << [name |-> "data",
                                 payload |-> [raw |-> [data |-> data.data,
                                                       topics |-> data.topics]]] >>,
                   threw |-> Undefined,
                   calls |-> <<call>>]

\* _processSubscriptionResult(data): the fields after the call, the events
\* emitted, the exception that left the call (if any) and the decoder calls.
\* Reading the name and inputs of an absent schema raises a TypeError before
\* the decoder is reached; an exception of the decoder is not caught.
ProcessSubscriptionResult(self, data) ==
    IF ~IsDefined(self.abi)
    THEN [this |-> self, emits |-> <<>>, threw |-> Some("TypeError"), calls |-> <<>>]
    ELSE LET event == SchemaWithSignature(ValueOf(self.abi))
             decoded == DecodeEventABI(event, data)
             call == [event |-> event, data |-> data]
         IN  IF decoded.ok
             THEN [this  |-> self,
                   emits |-> EmitDecoded(decoded.value, data),
                   threw |-> Undefined,
                   calls |-> <<call>>]
             ELSE [this  |-> self,
                   emits |-> <<>>,
                   threw |-> Some(decoded.error),
                   calls |-> <<call>>]

-----------------------------------------------------------------------------
(* The state machine.                                                       *)

Init ==
    /\ sessions = [s \in SessionIds |-> Undefined]
    /\ ctorLog = [s \in SessionIds |-> Undefined]
    /\ firstBuilt = [s \in SessionIds |-> Undefined]
    /\ lastBuilt = [s \in SessionIds |-> Undefined]
    /\ delivered = <<>>
    /\ emitted = <<>>
    /\ raised = <<>>
    /\ decoderCalls = <<>>
    /\ closed = {}

\* The number of notifications handed to session s so far.
HandledBy(s) == Cardinality({i \in 1..Len(delivered) : delivered[i].sid = s})

\* new LogsSubscription(args, options)
Construct(s, args) ==
    /\ ~IsDefined(ctorLog[s])
    /\ LET r == LogsSubscription(args)
       IN  /\ ctorLog' = [ctorLog EXCEPT ![s] = Some([args |-> args, threw |-> r.threw])]
           /\ sessions' = [sessions EXCEPT ![s] =
                              IF IsDefined(r.threw) THEN Undefined ELSE Some(r.this)]
    /\ UNCHANGED <<firstBuilt, lastBuilt, delivered, emitted, raised, decoderCalls, closed>>

\* session._buildSubscriptionParams()
Build(s) ==
    /\ IsDefined(sessions[s])
    /\ LET r == BuildSubscriptionParams(ValueOf(sessions[s]))
           call == [ret |-> r.ret, after |-> HandledBy(s)]
       IN  /\ sessions' = [sessions EXCEPT ![s] = Some(r.this)]
           /\ firstBuilt' = [firstBuilt EXCEPT ![s] =
                                IF IsDefined(firstBuilt[s]) THEN firstBuilt[s] ELSE Some(call)]
           /\ lastBuilt' = [lastBuilt EXCEPT ![s] = Some(call)]
    /\ UNCHANGED <<ctorLog, delivered, emitted, raised, decoderCalls, closed>>

\* session._processSubscriptionResult(data), called by the transport
Notify(s, data) ==
    /\ IsDefined(sessions[s])
    /\ Len(delivered) < MaxNotifications
    /\ LET r == ProcessSubscriptionResult(ValueOf(sessions[s]), data)
           n == Len(delivered) + 1
       IN  /\ sessions' = [sessions EXCEPT ![s] = Some(r.this)]
           /\ delivered' = Append(delivered,
                                  [sid |-> s, data |-> data, afterClose |-> s \in closed])
           /\ emitted' = emitted \o
                [i \in 1..Len(r.emits) |->
                    [sid |-> s, n |-> n, name |-> r.emits[i].name,
                     payload |-> r.emits[i].payload]]
           /\ raised' = IF IsDefined(r.threw)
                        THEN Append(raised, [sid |-> s, n |-> n, error |-> ValueOf(r.threw)])
                        ELSE raised
           /\ decoderCalls' = decoderCalls \o
                [i \in 1..Len(r.calls) |->
                    [sid |-> s, n |-> n, event |-> r.calls[i].event,
                     data |-> r.calls[i].data]]
    /\ UNCHANGED <<ctorLog, firstBuilt, lastBuilt, closed>>

\* session.unsubscribe() of the base class, acknowledged by the transport.
\* LogsSubscription overrides nothing of it and keeps no field about it; the
\* transport may still hand the session a notification afterwards.
Unsubscribe(s) ==
    /\ IsDefined(sessions[s])
    /\ s \notin closed
    /\ closed' = closed \cup {s}
    /\ UNCHANGED <<sessions, ctorLog, firstBuilt, lastBuilt, delivered, emitted, raised,
                   decoderCalls>>

Next ==
    \/ \E s \in SessionIds, args \in CtorArgs : Construct(s, args)
    \/ \E s \in SessionIds : Build(s)
    \/ \E s \in SessionIds, data \in Notifications : Notify(s, data)

\* The constructor and the two methods of LogsSubscription.
Spec == Init /\ [][Next]_vars

\* The same with the inherited unsubscribe.
NextClose ==
    \/ \E s \in SessionIds, args \in CtorArgs : Construct(s, args)
    \/ \E s \in SessionIds : Build(s)
    \/ \E s \in SessionIds, data \in Notifications : Notify(s, data)
    \/ \E s \in SessionIds : Unsubscribe(s)

SpecClose == Init /\ [][NextClose]_vars

-----------------------------------------------------------------------------
(* What the logs say about one call.                                        *)

\* The constructor call made for session s.
CtorCall(s) == ValueOf(ctorLog[s])

\* The events of the kinds data, changed and error emitted while the n-th
\* notification was handled.
OutcomeEvents(n) ==
    SelectSeq(emitted, LAMBDA e : e.n = n /\ e.name \in {"data", "changed", "error"})

\* The exceptions that left the handling of the n-th notification.
RaisedBy(n) == SelectSeq(raised, LAMBDA x : x.n = n)

\* The n-th notification went to a session constructed with a schema.
HasSchema(n) == IsDefined(CtorCall(delivered[n].sid).args.abi)

\* The n-th notification matches the layout of the schema its session was
\* constructed with, so the decoder accepts it.
Decodes(n) ==
    LET abi == CtorCall(delivered[n].sid).args.abi
    IN  /\ IsDefined(abi)
        /\ LayoutMatches(ValueOf(abi).inputs, delivered[n].data)

\* The record the decoder returns for the n-th notification under the schema
\* its session was constructed with, carrying the recomputed signature.
ExpectedRecord(n) ==
    LET abi == ValueOf(CtorCall(delivered[n].sid).args.abi)
    IN  DecodeEventABI(SchemaWithSignature(abi), delivered[n].data).value

\* The fields of session s are the constructor's arguments.
FieldsAsConstructed(s) ==
    LET args == CtorCall(s).args
    IN  sessions[s] =
            Some([address |-> args.address, topics |-> args.topics, abi |-> args.abi])

-----------------------------------------------------------------------------
(* C1 *)

\* C1: every notification that decodes produces a single event; it is
\* `changed` with removed = true in its payload when the notification is
\* marked removed, and `data` without that marker when it is not.
C1_RemovalFlagFidelity ==
    \A n \in 1..Len(delivered) :
        Decodes(n) =>
            LET ev == OutcomeEvents(n)
            IN  /\ Len(ev) = 1
                /\ IF delivered[n].data.removed
                   THEN ev[1].name = "changed" /\ ev[1].payload.removed = TRUE
                   ELSE ev[1].name = "data" /\ ev[1].payload.removed = FALSE

-----------------------------------------------------------------------------
(* C2 *)

\* C2: no exception leaves the handler; a notification whose decoding
\* fails produces exactly one `error` event instead. Stated for the sessions
\* constructed with a schema, where the step that fails is the decoder.
C2_HandlerNeverRaises ==
    \A n \in 1..Len(delivered) :
        HasSchema(n) =>
            /\ RaisedBy(n) = <<>>
            /\ ~Decodes(n) =>
                  /\ Len(OutcomeEvents(n)) = 1
                  /\ OutcomeEvents(n)[1].name = "error"

-----------------------------------------------------------------------------
(* C3 *)

\* An earlier notification of the same session failed to decode.
FailedBefore(n) ==
    \E m \in 1..(n - 1) : delivered[m].sid = delivered[n].sid /\ ~Decodes(m)

\* C3: a well-formed notification that follows a failed one on the same
\* session is handled without an exception and emits one data or changed
\* event carrying the decoder's record for it; a session that has handled a
\* failing notification still holds the address, topics and schema it was
\* constructed with.
C3_MalformedInputIsolation ==
    /\ \A n \in 1..Len(delivered) :
          (FailedBefore(n) /\ Decodes(n)) =>
              /\ RaisedBy(n) = <<>>
              /\ Len(OutcomeEvents(n)) = 1
              /\ OutcomeEvents(n)[1].name \in {"data", "changed"}
              /\ OutcomeEvents(n)[1].payload = ExpectedRecord(n)
    /\ \A n \in 1..Len(delivered) :
          ~Decodes(n) => FieldsAsConstructed(delivered[n].sid)

\* A failed notification followed by a decoded one on the same session.
C3_Witness ==
    \E n \in 1..Len(delivered) :
        /\ FailedBefore(n)
        /\ Decodes(n)
        /\ Len(OutcomeEvents(n)) = 1

-----------------------------------------------------------------------------
(* C4 *)

\* C4: every notification handed to a session produces exactly one event
\* among data, changed and error, so k notifications produce k of them.
\* Stated for the sessions constructed with a schema.
C4_ExactlyOneOutcome ==
    /\ \A n \in 1..Len(delivered) : HasSchema(n) => Len(OutcomeEvents(n)) = 1
    /\ (\A n \in 1..Len(delivered) : HasSchema(n)) =>
          Len(SelectSeq(emitted, LAMBDA e : e.name \in {"data", "changed", "error"}))
              = Len(delivered)

-----------------------------------------------------------------------------
(* C5 *)

\* C5: a notification whose topics and data match the schema's layout
\* produces exactly one event, of kind data or changed, and no error event.
C5_WellFormedYieldsOneEvent ==
    \A n \in 1..Len(delivered) :
        Decodes(n) =>
            /\ Len(SelectSeq(emitted, LAMBDA e : e.n = n /\ e.name \in {"data", "changed"})) = 1
            /\ Len(SelectSeq(emitted, LAMBDA e : e.n = n /\ e.name = "error")) = 0

\* A well-formed notification marked removed has been handled.
C5_Witness ==
    \E n \in 1..Len(delivered) :
        /\ Decodes(n)
        /\ delivered[n].data.removed
        /\ \E i \in 1..Len(emitted) : emitted[i].n = n

-----------------------------------------------------------------------------
(* C6 *)

\* The hash of the canonical name+types string of the schema session s was
\* constructed with.
RecomputedSignature(s) ==
    EncodeEventSignature(JsonInterfaceMethodToString(ValueOf(CtorCall(s).args.abi)))

\* C6: the schema handed to the decoder, and the record emitted, carry the
\* hash of the canonical string of the session's schema, whatever signature
\* field (absent or stale) the stored schema has.
C6_SignatureRecomputed ==
    /\ \A i \in 1..Len(decoderCalls) :
          decoderCalls[i].event.signature = Some(RecomputedSignature(decoderCalls[i].sid))
    /\ \A i \in 1..Len(emitted) :
          emitted[i].name \in {"data", "changed"} =>
              emitted[i].payload.signature = Some(RecomputedSignature(emitted[i].sid))

\* A record was emitted by a session whose stored schema has a stale
\* signature, and the decoder was called by one whose schema has none.
C6_Witness ==
    /\ \E i \in 1..Len(emitted) :
          LET stored == ValueOf(CtorCall(emitted[i].sid).args.abi).signature
          IN  IsDefined(stored) /\ stored # Some(RecomputedSignature(emitted[i].sid))
    /\ \E i \in 1..Len(decoderCalls) :
          ~IsDefined(ValueOf(CtorCall(decoderCalls[i].sid).args.abi).signature)

-----------------------------------------------------------------------------
(* C7 *)

\* The topic-slot count of the filter is at most the schema's number of
\* indexed parameters plus one.
SlotCountWithinSchema(args) ==
    /\ IsDefined(args.abi)
    /\ IsDefined(args.topics) =>
          Len(ValueOf(args.topics)) <= Len(IndexedInputs(ValueOf(args.abi).inputs)) + 1

\* C7: for a session whose filter has at most indexed-count+1 topic slots,
\* every call of _buildSubscriptionParams returns what the first call
\* returned, whatever notifications were handled in between.
C7_BuildParamsIdempotent ==
    \A s \in SessionIds :
        (IsDefined(lastBuilt[s]) /\ SlotCountWithinSchema(CtorCall(s).args)) =>
            ValueOf(lastBuilt[s]).ret = ValueOf(firstBuilt[s]).ret

\* A session built its parameters, handled a notification that failed and
\* one that decoded, and built its parameters again.
C7_Witness ==
    \E s \in SessionIds :
        /\ IsDefined(lastBuilt[s])
        /\ SlotCountWithinSchema(CtorCall(s).args)
        /\ IsDefined(CtorCall(s).args.topics)
        /\ ValueOf(firstBuilt[s]).after = 0
        /\ ValueOf(lastBuilt[s]).after = 2
        /\ \E n, m \in 1..Len(delivered) :
              /\ delivered[n].sid = s /\ Decodes(n)
              /\ delivered[m].sid = s /\ ~Decodes(m)

-----------------------------------------------------------------------------
(* C8 *)

\* C8 as stated: the result is ["logs", object], and the object has the key
\* `address` exactly when the constructor was given an address and the key
\* `topics` exactly when it was given topics.
C8_KeysPresentOnlyIfSpecified ==
    \A s \in SessionIds :
        IsDefined(lastBuilt[s]) =>
            LET ret == ValueOf(lastBuilt[s]).ret
                args == CtorCall(s).args
            IN  /\ ret[1] = "logs"
                /\ ("address" \in DOMAIN ret[2]) <=> IsDefined(args.address)
                /\ ("topics" \in DOMAIN ret[2]) <=> IsDefined(args.topics)

\* C8 as amended: the result is ["logs", object], and the object always has
\* both keys; the value of `address` is defined exactly when the constructor
\* was given an address, the value of `topics` exactly when it was given
\* topics, and an omitted one is held as undefined.
C8_KeysAlwaysPresent ==
    \A s \in SessionIds :
        IsDefined(lastBuilt[s]) =>
            LET ret == ValueOf(lastBuilt[s]).ret
                args == CtorCall(s).args
            IN  /\ Len(ret) = 2
                /\ ret[1] = "logs"
                /\ DOMAIN ret[2] = {"address", "topics"}
                /\ IsDefined(ret[2].address) <=> IsDefined(args.address)
                /\ IsDefined(ret[2].topics) <=> IsDefined(args.topics)

\* Parameters were built for a session constructed without address and
\* without topics, and for one constructed with both.
C8_Witness ==
    /\ \E s \in SessionIds :
          /\ IsDefined(lastBuilt[s])
          /\ ~IsDefined(CtorCall(s).args.address)
          /\ ~IsDefined(CtorCall(s).args.topics)
    /\ \E s \in SessionIds :
          /\ IsDefined(lastBuilt[s])
          /\ IsDefined(CtorCall(s).args.address)
          /\ IsDefined(CtorCall(s).args.topics)

-----------------------------------------------------------------------------
(* C9 *)

-----------------------------------------------------------------------------
(* C10 *)

-----------------------------------------------------------------------------
(* C11 *)

\* The positions in `delivered` of the notifications handed to session s, in
\* call order.
RECURSIVE DeliveredTo(_, _)
DeliveredTo(s, k) ==
    IF k = 0 THEN <<>>
    ELSE IF delivered[k].sid = s
         THEN Append(DeliveredTo(s, k - 1), k)
         ELSE DeliveredTo(s, k - 1)

\* The notification each event of session s was emitted for, in emission order.
RECURSIVE EmittedFor(_, _)
EmittedFor(s, k) ==
    IF k = 0 THEN <<>>
    ELSE IF emitted[k].sid = s
         THEN Append(EmittedFor(s, k - 1), emitted[k].n)
         ELSE EmittedFor(s, k - 1)

\* C11: the events a session has emitted correspond one-to-one and in the
\* same order to the notifications handed to it: the i-th event is the event
\* of the i-th notification, emitted within that notification's handling.
\* Stated for the sessions constructed with a schema.
C11_EventsFollowNotifications ==
    \A s \in SessionIds :
        (IsDefined(ctorLog[s]) /\ IsDefined(CtorCall(s).args.abi)) =>
            EmittedFor(s, Len(emitted)) = DeliveredTo(s, Len(delivered))

-----------------------------------------------------------------------------
(* C12 *)

\* C12: a notification that reaches the handler of a session after its
\* unsubscribe request was acknowledged is discarded: the decoder is not
\* called for it and no data, changed or error event is emitted for it.
C12_NoEmissionAfterClose ==
    \A n \in 1..Len(delivered) :
        delivered[n].afterClose =>
            /\ OutcomeEvents(n) = <<>>
            /\ \A i \in 1..Len(decoderCalls) : decoderCalls[i].n # n

-----------------------------------------------------------------------------
(* C13 *)

\* C13: after any sequence of _buildSubscriptionParams calls and notification
\* handlings, the address, the topics and the schema of every session,
\* its stored signature field included, are the constructor's arguments.
C13_FieldsNeverMutated ==
    \A s \in SessionIds : IsDefined(sessions[s]) => FieldsAsConstructed(s)

\* A session whose schema has no signature field has built its parameters
\* and has handled a notification that decoded and one that failed.
C13_Witness ==
    \E s \in SessionIds :
        /\ IsDefined(sessions[s])
        /\ IsDefined(CtorCall(s).args.abi)
        /\ ~IsDefined(ValueOf(CtorCall(s).args.abi).signature)
        /\ IsDefined(lastBuilt[s])
        /\ \E n, m \in 1..Len(delivered) :
              /\ delivered[n].sid = s /\ Decodes(n) /\ OutcomeEvents(n) # <<>>
              /\ delivered[m].sid = s /\ ~Decodes(m)

-----------------------------------------------------------------------------
(* C14 *)

\* Two event fragments describe the same schema: the same name and the same
\* ordered parameters (the stored signature field is not part of it).
SameSchema(a, b) == a.name = b.name /\ a.inputs = b.inputs

\* What handling the n-th notification produced: the kinds and payloads of
\* the events emitted, and the errors raised.
Outcome(n) ==
    LET ev == SelectSeq(emitted, LAMBDA e : e.n = n)
        ex == RaisedBy(n)
    IN  [events |-> [i \in 1..Len(ev) |-> [name |-> ev[i].name, payload |-> ev[i].payload]],
         errors |-> [i \in 1..Len(ex) |-> ex[i].error]]

\* C14: two handlings of the same notification, by one session or by two
\* sessions constructed with the same schema, produce the same events with
\* the same payloads, whatever was handled before.
C14_DecodingDeterministic ==
    \A n, m \in 1..Len(delivered) :
        (/\ delivered[n].data = delivered[m].data
         /\ HasSchema(n)
         /\ HasSchema(m)
         /\ SameSchema(ValueOf(CtorCall(delivered[n].sid).args.abi),
                       ValueOf(CtorCall(delivered[m].sid).args.abi)))
            => Outcome(n) = Outcome(m)

\* The same notification was decoded by two sessions constructed with the
\* same schema, one storing a stale signature and one storing none, and
\* with different filters.
C14_Witness ==
    \E n, m \in 1..Len(delivered) :
        /\ n < m
        /\ delivered[n].sid # delivered[m].sid
        /\ delivered[n].data = delivered[m].data
        /\ Decodes(n)
        /\ Decodes(m)
        /\ OutcomeEvents(n) # <<>>
        /\ OutcomeEvents(m) # <<>>
        /\ LET a == CtorCall(delivered[n].sid).args
               b == CtorCall(delivered[m].sid).args
           IN  /\ SameSchema(ValueOf(a.abi), ValueOf(b.abi))
               /\ ValueOf(a.abi).signature # ValueOf(b.abi).signature
               /\ a.address # b.address

-----------------------------------------------------------------------------
(* C15 *)

\* C15: a notification on which the decoder fails produces no data and no
\* changed event.
C15_NoPartialResult ==
    \A n \in 1..Len(delivered) :
        ~Decodes(n) =>
            \A i \in 1..Len(emitted) :
                emitted[i].n = n => emitted[i].name \notin {"data", "changed"}

\* The decoder was called for a notification with two topics under a schema
\* that lays out three, and failed.
C15_Witness ==
    \E n \in 1..Len(delivered) :
        /\ HasSchema(n)
        /\ ~Decodes(n)
        /\ Len(delivered[n].data.topics) = 2
        /\ \E i \in 1..Len(decoderCalls) : decoderCalls[i].n = n
        /\ RaisedBy(n) # <<>>

-----------------------------------------------------------------------------
(* C16 *)

\* C16: the payload of every data or changed event is the record the decoder
\* returned for the call made while its notification was handled, and that
\* call was given the notification as delivered and the session's schema
\* with its signature replaced by the recomputed hash.
C16_PayloadIsDecoderRecord ==
    \A i \in 1..Len(emitted) :
        emitted[i].name \in {"data", "changed"} =>
            \E c \in 1..Len(decoderCalls) :
                LET call == decoderCalls[c]
                    abi == ValueOf(CtorCall(emitted[i].sid).args.abi)
                IN  /\ call.n = emitted[i].n
                    /\ call.sid = emitted[i].sid
                    /\ call.data = delivered[emitted[i].n].data
                    /\ call.event =
                          [abi EXCEPT !.signature = Some(RecomputedSignature(emitted[i].sid))]
                    /\ emitted[i].payload = DecodeEventABI(call.event, call.data).value

\* An event was emitted for a notification whose address word is truncated
\* by the decoder, so the payload differs from the raw topics.
C16_Witness ==
    \E i \in 1..Len(emitted) :
        /\ emitted[i].name = "data"
        /\ emitted[i].payload.raw.topics = <<TransferSignature, 1, 258>>
        /\ emitted[i].payload.returnValues = [from |-> 1, to |-> 2, value |-> 100]

-----------------------------------------------------------------------------
(* C17 *)

\* C17: the address and the topics of the subscription parameters are the
\* constructor's arguments: the same values, slots, slot order and OR-sets,
\* with nothing inserted, filled, truncated or normalized.
C17_ParamsVerbatim ==
    \A s \in SessionIds :
        IsDefined(lastBuilt[s]) =>
            /\ ValueOf(lastBuilt[s]).ret[2].address = CtorCall(s).args.address
            /\ ValueOf(lastBuilt[s]).ret[2].topics = CtorCall(s).args.topics
            /\ ValueOf(firstBuilt[s]).ret[2].address = CtorCall(s).args.address
            /\ ValueOf(firstBuilt[s]).ret[2].topics = CtorCall(s).args.topics

\* Parameters were built for a session given no topics and a schema, for one
\* given an OR-set in a slot, and for one given a slot 0 that is not the
\* signature hash.
C17_Witness ==
    /\ \E s \in SessionIds :
          /\ IsDefined(lastBuilt[s])
          /\ IsDefined(CtorCall(s).args.abi)
          /\ ~IsDefined(CtorCall(s).args.topics)
    /\ \E s \in SessionIds :
          /\ IsDefined(lastBuilt[s])
          /\ IsDefined(CtorCall(s).args.topics)
          /\ LET topics == ValueOf(CtorCall(s).args.topics)
             IN  \/ \E k \in 1..Len(topics) : topics[k].kind = "or"
                 \/ /\ Len(topics) >= 1
                    /\ IsDefined(CtorCall(s).args.abi)
                    /\ topics[1] # OneSlot(RecomputedSignature(s))

====
